---- MODULE Spec2Model ----
(***************************************************************************)
(* The advanced light group of custom_components/advanced_light_group:     *)
(* a composite light over "main" and "auxiliary" member lights.  The model *)
(* holds the state machine's states (hass.states restricted to the         *)
(* members), the fields of AdvancedLightGroup, the update tasks scheduled  *)
(* by the state-change listener, the listener registry, and the service    *)
(* calls issued by async_turn_on / async_turn_off / async_toggle.          *)
(*                                                                         *)
(* Python's None is the empty sequence <<>> and a value v that may be None *)
(* is carried as <<v>>, so that every field has one shape.                 *)
(***************************************************************************)
EXTENDS FiniteSets, Integers, Sequences, TLC

\* ---------------------------------------------------------------- bounds
\* update tasks that may be scheduled and not yet run
MaxPending == 1
\* subscriptions async_added_to_hass may create in one behaviour
MaxSubs == 2

\* ------------------------------------------------------ program constants
STATE_ON == "on"
STATE_OFF == "off"
STATE_UNAVAILABLE == "unavailable"

SUPPORT_BRIGHTNESS == 1
SUPPORT_COLOR_TEMP == 2
SUPPORT_EFFECT == 4
SUPPORT_FLASH == 8
SUPPORT_COLOR == 16
SUPPORT_TRANSITION == 32
SUPPORT_WHITE_VALUE == 128

ATTR_BRIGHTNESS == "brightness"
ATTR_HS_COLOR == "hs_color"
ATTR_COLOR_TEMP == "color_temp"
ATTR_WHITE_VALUE == "white_value"
ATTR_EFFECT == "effect"
ATTR_TRANSITION == "transition"
ATTR_FLASH == "flash"
ATTR_MIN_MIREDS == "min_mireds"
ATTR_MAX_MIREDS == "max_mireds"
ATTR_EFFECT_LIST == "effect_list"
ATTR_SUPPORTED_FEATURES == "supported_features"

SERVICE_TURN_ON == "turn_on"
SERVICE_TURN_OFF == "turn_off"

\* ---------------------------------------------------------------- helpers
None == <<>>
Some(v) == <<v>>

Range(s) == {s[i] : i \in 1..Len(s)}

RECURSIVE BitAnd(_, _)
BitAnd(a, b) ==
    IF a = 0 \/ b = 0 THEN 0
    ELSE (a % 2) * (b % 2) + 2 * BitAnd(a \div 2, b \div 2)

RECURSIVE BitOr(_, _)
BitOr(a, b) ==
    IF a = 0 THEN b
    ELSE IF b = 0 THEN a
    ELSE (IF a % 2 = 1 \/ b % 2 = 1 THEN 1 ELSE 0) + 2 * BitOr(a \div 2, b \div 2)

\* SUPPORT_GROUP_LIGHT, the capability mask of the group (191)
SUPPORT_GROUP_LIGHT ==
    BitOr(SUPPORT_BRIGHTNESS,
    BitOr(SUPPORT_COLOR_TEMP,
    BitOr(SUPPORT_EFFECT,
    BitOr(SUPPORT_FLASH,
    BitOr(SUPPORT_COLOR,
    BitOr(SUPPORT_TRANSITION, SUPPORT_WHITE_VALUE))))))

RECURSIVE Sum(_)
Sum(args) == IF args = <<>> THEN 0 ELSE Head(args) + Sum(Tail(args))

\* int(x / n) for an integer x and n > 0: Python's int() truncates toward zero
TruncDiv(x, n) == IF x >= 0 THEN x \div n ELSE -((-x) \div n)

RECURSIVE Gcd(_, _)
Gcd(a, b) == IF b = 0 THEN a ELSE Gcd(b, a % b)

Abs(x) == IF x < 0 THEN -x ELSE x

\* a float is carried as the exact fraction <<numerator, denominator>> in
\* lowest terms, denominator > 0
Frac(n, d) ==
    LET g == Gcd(Abs(n), d)
    IN  IF n = 0 THEN <<0, 1>> ELSE <<n \div g, d \div g>>

FracAdd(x, y) == Frac(x[1] * y[2] + y[1] * x[2], x[2] * y[2])

RECURSIVE FracSum(_)
FracSum(l) == IF l = <<>> THEN <<0, 1>> ELSE FracAdd(Head(l), FracSum(Tail(l)))

\* ----------------------------------------------------------------- inputs
\* the entity ids the configurations draw their members from
Lights == {"light.a", "light.b", "light.c"}

\* the states STATE_ON / STATE_OFF / STATE_UNAVAILABLE a member reports
Powers == {STATE_ON, STATE_OFF, STATE_UNAVAILABLE}

\* state.attributes of a member that reports no attribute at all
NoAttributes ==
    [brightness |-> None, hs_color |-> None, color_temp |-> None,
     white_value |-> None, effect |-> None, effect_list |-> None,
     min_mireds |-> None, max_mireds |-> None, supported_features |-> None]

\* members' states for the dispatch specification: power only
PlainSnapshots == [state : Powers, attributes : {NoAttributes}]

\* (main_lights, auxiliary_lights) configurations of the dispatch specification
Configs ==
    { [main |-> <<"light.a">>, aux |-> <<"light.b">>],
      [main |-> <<"light.a", "light.b">>, aux |-> <<>>],
      [main |-> <<"light.a">>, aux |-> <<"light.a", "light.b">>],
      [main |-> <<>>, aux |-> <<"light.a">>] }

\* keyword arguments of a turn_on / turn_off / toggle request
EmptyKwargs == [k \in {} |-> 0]
Payloads ==
    { EmptyKwargs,
      (ATTR_BRIGHTNESS :> 10),
      (ATTR_TRANSITION :> 2),
      (ATTR_BRIGHTNESS :> 10) @@ (ATTR_TRANSITION :> 2) }

\* state.attributes with one attribute reported
OneAttribute(key, value) == [NoAttributes EXCEPT ![key] = Some(value)]

\* members' states for the reduction specification: a feature mask within,
\* across and beyond SUPPORT_GROUP_LIGHT
ReduceAttributes ==
    {NoAttributes}
    \cup {OneAttribute(ATTR_SUPPORTED_FEATURES, f) :
             f \in {SUPPORT_BRIGHTNESS, SUPPORT_COLOR_TEMP + 64, SUPPORT_COLOR + 256}}
ReduceSnapshots == [state : Powers, attributes : ReduceAttributes]

\* configurations of the reduction specification
ReduceConfigs ==
    { [main |-> <<"light.a">>, aux |-> <<"light.b">>],
      [main |-> <<"light.a", "light.b">>, aux |-> <<"light.a">>] }

\* members' states for the means: a brightness, a color temperature or a white
\* value, with pairs whose mean is not an integer
MeanAttributes ==
    {NoAttributes}
    \cup {OneAttribute(ATTR_BRIGHTNESS, b) : b \in {100, 101, 102}}
    \cup {OneAttribute(ATTR_COLOR_TEMP, c) : c \in {250, 253}}
    \cup {OneAttribute(ATTR_WHITE_VALUE, w) : w \in {7, 10}}
MeanSnapshots == [state : Powers, attributes : MeanAttributes]

\* members' states for the effect: one of two effects, or none
EffectAttributes ==
    {NoAttributes} \cup {OneAttribute(ATTR_EFFECT, e) : e \in {"colorloop", "strobe"}}
EffectSnapshots == [state : Powers, attributes : EffectAttributes]

\* members' states with every attribute the group reads: two kinds of light
WarmAttributes ==
    [brightness |-> Some(100), hs_color |-> Some(<<<<30, 1>>, <<50, 1>>>>),
     color_temp |-> Some(400), white_value |-> Some(10),
     effect |-> Some("colorloop"), effect_list |-> Some({"colorloop"}),
     min_mireds |-> Some(153), max_mireds |-> Some(454),
     supported_features |-> Some(SUPPORT_BRIGHTNESS + SUPPORT_COLOR_TEMP + SUPPORT_EFFECT)]

CoolAttributes ==
    [brightness |-> Some(201), hs_color |-> Some(<<<<45, 2>>, <<75, 1>>>>),
     color_temp |-> Some(253), white_value |-> Some(7),
     effect |-> Some("strobe"), effect_list |-> Some({"strobe", "colorloop"}),
     min_mireds |-> Some(200), max_mireds |-> Some(555),
     supported_features |-> Some(SUPPORT_COLOR + SUPPORT_TRANSITION + 64)]

WholeSnapshots ==
    [state : Powers, attributes : {NoAttributes, WarmAttributes, CoolAttributes}]

\* configurations for the effect: three lights, and a light in both lists
EffectConfigs ==
    { [main |-> <<"light.a", "light.b">>, aux |-> <<"light.c">>],
      [main |-> <<"light.a", "light.b">>, aux |-> <<"light.b">>] }

\* ------------------------------------------------------------------ state
VARIABLES
    main_lights,               \* self._main_lights
    aux_lights,                \* self._aux_lights
    entity_ids,                \* self._entity_ids
    is_on,                     \* self._is_on
    main_lights_on,            \* self._main_lights_on
    available,                 \* self._available
    brightness,                \* self._brightness
    hs_color,                  \* self._hs_color
    color_temp,                \* self._color_temp
    min_mireds,                \* self._min_mireds
    max_mireds,                \* self._max_mireds
    white_value,               \* self._white_value
    effect_list,               \* self._effect_list
    effect,                    \* self._effect
    supported_features,        \* self._supported_features
    async_unsub_state_changed, \* self._async_unsub_state_changed
    hass_states,               \* hass.states, restricted to the members
    listeners,                 \* subscriptions of async_track_state_change still active
    unsub_calls,               \* how often each subscription's unsubscribe handle was called
    pending_updates,           \* update tasks scheduled by the listener, not yet run
    pc,                        \* position of the service handler in flight
    op,                        \* the last request: its method and keyword arguments
    calls                      \* hass.services.async_call calls issued by that request

membership == <<main_lights, aux_lights, entity_ids>>
composite ==
    <<is_on, main_lights_on, available, brightness, hs_color, color_temp,
      min_mireds, max_mireds, white_value, effect_list, effect, supported_features>>
subscription == <<async_unsub_state_changed, listeners, unsub_calls>>
dispatch == <<pc, op, calls>>
vars == <<membership, composite, subscription, hass_states, pending_updates, dispatch>>

\* ------------------------------------------------- reading member states
\* hass.states.get(x): the State object of x, or None
states_get(x) ==
    IF x \in DOMAIN hass_states
    THEN Some([entity_id |-> x,
               state |-> hass_states[x].state,
               attributes |-> hass_states[x].attributes])
    ELSE None

\* all_states with the None entries filtered out, in the order of ids
RECURSIVE present_states(_)
present_states(ids) ==
    IF ids = <<>> THEN <<>>
    ELSE states_get(Head(ids)) \o present_states(Tail(ids))

\* _get_states_and_on_states()[0]
states == present_states(entity_ids)

\* the filter of on_states keeping every state that is not "off"
on_states_not_off == SelectSeq(states, LAMBDA s : s.state # STATE_OFF)

\* _get_states_and_on_states()[1]
on_states == SelectSeq(states, LAMBDA s : s.state = STATE_ON)

\* _get_turned_on_entities()
get_turned_on_entities == [i \in 1..Len(on_states) |-> on_states[i].entity_id]

\* ------------------------------------------------------------- reducers
\* _find_state_attributes: the values of key that are not None, in order
RECURSIVE find_state_attributes(_, _)
find_state_attributes(sts, key) ==
    IF sts = <<>> THEN <<>>
    ELSE Head(sts).attributes[key] \o find_state_attributes(Tail(sts), key)

\* _mean_int: int(sum(args) / len(args))
mean_int(args) == TruncDiv(Sum(args), Len(args))

\* zip(*args): column j of the tuples, up to the shortest tuple
Columns(args) ==
    LET width == CHOOSE w \in 0..2 :
                    /\ \A i \in 1..Len(args) : Len(args[i]) >= w
                    /\ \A v \in 0..2 : (\A i \in 1..Len(args) : Len(args[i]) >= v) => v <= w
    IN  [j \in 1..width |-> [i \in 1..Len(args) |-> args[i][j]]]

\* _mean_tuple: the mean of every column
mean_tuple(args) ==
    LET cols == Columns(args)
    IN  [j \in 1..Len(cols) |->
            LET s == FracSum(cols[j])
            IN  Frac(s[1], s[2] * Len(cols[j]))]

\* min(*args) and max(*args)
min_of(args) == CHOOSE v \in Range(args) : \A w \in Range(args) : v <= w
max_of(args) == CHOOSE v \in Range(args) : \A w \in Range(args) : v >= w

\* reduce(*attrs) for the reducers _reduce_attribute is called with
apply_reduce(reduce, attrs) ==
    CASE reduce = "_mean_int" -> mean_int(attrs)
      [] reduce = "_mean_tuple" -> mean_tuple(attrs)
      [] reduce = "min" -> min_of(attrs)
      [] reduce = "max" -> max_of(attrs)

\* _reduce_attribute taking a single value for none
reduce_attribute_no_single(sts, key, default, reduce) ==
    LET attrs == find_state_attributes(sts, key)
    IN  IF Len(attrs) <= 1 THEN default
        ELSE Some(apply_reduce(reduce, attrs))

\* _reduce_attribute(states, key, default, reduce)
reduce_attribute(sts, key, default, reduce) ==
    LET attrs == find_state_attributes(sts, key)
    IN  IF attrs = <<>> THEN default
        ELSE IF Len(attrs) = 1 THEN Some(attrs[1])
        ELSE Some(apply_reduce(reduce, attrs))

\* Counter(all_effects).most_common(1)[0][0]: the value counted most often,
\* the first one encountered among equals
Count(v, l) == Cardinality({i \in 1..Len(l) : l[i] = v})
most_common(l) ==
    LET best == {i \in 1..Len(l) : \A j \in 1..Len(l) : Count(l[j], l) <= Count(l[i], l)}
        first == CHOOSE i \in best : \A j \in best : i <= j
    IN  l[first]

RECURSIVE or_all(_)
or_all(masks) == IF masks = <<>> THEN 0 ELSE BitOr(Head(masks), or_all(Tail(masks)))

RECURSIVE union_all(_)
union_all(lists) == IF lists = <<>> THEN {} ELSE Head(lists) \cup union_all(Tail(lists))

\* --------------------------------------------- async_update, field by field
update_is_on == Len(on_states) > 0

\* main_lights_on looking at every state, on or not
update_main_lights_on_any_state ==
    \E i \in 1..Len(main_lights) :
       \E j \in 1..Len(states) : states[j].entity_id = main_lights[i]

update_main_lights_on ==
    \E i \in 1..Len(main_lights) : main_lights[i] \in Range(get_turned_on_entities)

\* available with all() for any()
update_available_all ==
    \A i \in 1..Len(states) : states[i].state # STATE_UNAVAILABLE

update_available == \E i \in 1..Len(states) : states[i].state # STATE_UNAVAILABLE

update_brightness == reduce_attribute(on_states, ATTR_BRIGHTNESS, None, "_mean_int")

update_hs_color == reduce_attribute(on_states, ATTR_HS_COLOR, None, "_mean_tuple")

update_white_value == reduce_attribute(on_states, ATTR_WHITE_VALUE, None, "_mean_int")

update_color_temp == reduce_attribute(on_states, ATTR_COLOR_TEMP, None, "_mean_int")

\* min_mireds without the default of 154
update_min_mireds_no_default == reduce_attribute(states, ATTR_MIN_MIREDS, None, "min")

update_min_mireds == reduce_attribute(states, ATTR_MIN_MIREDS, Some(154), "min")

update_max_mireds == reduce_attribute(states, ATTR_MAX_MIREDS, Some(500), "max")

update_effect_list ==
    LET all_effect_lists == find_state_attributes(states, ATTR_EFFECT_LIST)
    IN  IF all_effect_lists # <<>> THEN Some(union_all(all_effect_lists)) ELSE None

update_effect ==
    LET all_effects == find_state_attributes(on_states, ATTR_EFFECT)
    IN  IF all_effects # <<>> THEN Some(most_common(all_effects)) ELSE None

\* supported_features without the final &= SUPPORT_GROUP_LIGHT
update_supported_features_unmasked ==
    or_all(find_state_attributes(states, ATTR_SUPPORTED_FEATURES))

update_supported_features ==
    BitAnd(or_all(find_state_attributes(states, ATTR_SUPPORTED_FEATURES)),
           SUPPORT_GROUP_LIGHT)

\* async_update leaving main_lights_on as an earlier update set it
async_update_partial ==
    /\ is_on' = update_is_on
    /\ main_lights_on' = main_lights_on
    /\ available' = update_available
    /\ brightness' = update_brightness
    /\ hs_color' = update_hs_color
    /\ white_value' = update_white_value
    /\ color_temp' = update_color_temp
    /\ min_mireds' = update_min_mireds
    /\ max_mireds' = update_max_mireds
    /\ effect_list' = update_effect_list
    /\ effect' = update_effect
    /\ supported_features' = update_supported_features

\* async_update keeping the effect it had when no member reports one
async_update_keeps_effect ==
    /\ is_on' = update_is_on
    /\ main_lights_on' = update_main_lights_on
    /\ available' = update_available
    /\ brightness' = update_brightness
    /\ hs_color' = update_hs_color
    /\ white_value' = update_white_value
    /\ color_temp' = update_color_temp
    /\ min_mireds' = update_min_mireds
    /\ max_mireds' = update_max_mireds
    /\ effect_list' = update_effect_list
    /\ effect' = IF update_effect = None THEN effect ELSE update_effect
    /\ supported_features' = update_supported_features

\* async_update: every field of the group is assigned from the members' states
async_update ==
    /\ is_on' = update_is_on
    /\ main_lights_on' = update_main_lights_on
    /\ available' = update_available
    /\ brightness' = update_brightness
    /\ hs_color' = update_hs_color
    /\ white_value' = update_white_value
    /\ color_temp' = update_color_temp
    /\ min_mireds' = update_min_mireds
    /\ max_mireds' = update_max_mireds
    /\ effect_list' = update_effect_list
    /\ effect' = update_effect
    /\ supported_features' = update_supported_features

\* ------------------------------------------------------------ construction
\* __init__ for one configuration, with the members' states as they are then
InitWith(configs, snapshots) ==
    /\ \E c \in configs :
          /\ main_lights = c.main
          /\ aux_lights = c.aux
          /\ entity_ids = c.main \o c.aux
    /\ is_on = FALSE
    /\ main_lights_on = FALSE
    /\ available = FALSE
    /\ brightness = None
    /\ hs_color = None
    /\ color_temp = None
    /\ min_mireds = Some(154)
    /\ max_mireds = Some(500)
    /\ white_value = None
    /\ effect_list = None
    /\ effect = None
    /\ supported_features = 0
    /\ async_unsub_state_changed = None
    /\ \E present \in SUBSET Range(entity_ids) : hass_states \in [present -> snapshots]
    /\ listeners = {}
    /\ unsub_calls = <<>>
    /\ pending_updates = 0
    /\ pc = "idle"
    /\ op = [method |-> "none", kwargs |-> EmptyKwargs]
    /\ calls = <<>>

\* ------------------------------------------------- the members' environment
\* the state machine replaces its states and fires state_changed: every active
\* async_state_changed_listener calls async_schedule_update_ha_state(True)
state_changed(new_states) ==
    /\ new_states # hass_states
    /\ pending_updates + Cardinality(listeners) <= MaxPending
    /\ hass_states' = new_states
    /\ pending_updates' = pending_updates + Cardinality(listeners)
    /\ UNCHANGED <<membership, composite, subscription, dispatch>>

\* a member reports the state s
state_set(m, s) ==
    /\ m \in Range(entity_ids)
    /\ state_changed([x \in DOMAIN hass_states \cup {m} |->
                         IF x = m THEN s ELSE hass_states[x]])

\* a member's state is removed from the state machine
state_removed(m) ==
    /\ m \in DOMAIN hass_states
    /\ state_changed([x \in DOMAIN hass_states \ {m} |-> hass_states[x]])

\* a scheduled async_update_ha_state(True) task runs async_update
scheduled_update ==
    /\ pending_updates > 0
    /\ pending_updates' = pending_updates - 1
    /\ async_update
    /\ UNCHANGED <<membership, subscription, hass_states, dispatch>>

\* ---------------------------------------------------------------- lifecycle
async_added_to_hass ==
    /\ Len(unsub_calls) < MaxSubs
    /\ LET handle == Len(unsub_calls) + 1
       IN  /\ listeners' = listeners \cup {handle}
           /\ unsub_calls' = Append(unsub_calls, 0)
           /\ async_unsub_state_changed' = Some(handle)
    /\ async_update
    /\ UNCHANGED <<membership, hass_states, pending_updates, dispatch>>

async_will_remove_from_hass ==
    /\ IF async_unsub_state_changed # None
       THEN LET handle == async_unsub_state_changed[1]
            IN  /\ unsub_calls' = [unsub_calls EXCEPT ![handle] = @ + 1]
                /\ listeners' = listeners \ {handle}
                /\ async_unsub_state_changed' = None
       ELSE UNCHANGED subscription
    /\ UNCHANGED <<membership, composite, hass_states, pending_updates, dispatch>>

\* ----------------------------------------------------------------- dispatch
\* the attributes async_turn_on copies from kwargs into data
TurnOnKeys ==
    {ATTR_BRIGHTNESS, ATTR_HS_COLOR, ATTR_COLOR_TEMP, ATTR_WHITE_VALUE,
     ATTR_EFFECT, ATTR_TRANSITION, ATTR_FLASH}

\* the attributes async_turn_off copies from kwargs into data
TurnOffKeys == {ATTR_TRANSITION}

Restrict(kwargs, keys) == [k \in DOMAIN kwargs \cap keys |-> kwargs[k]]

\* hass.services.async_call(light.DOMAIN, service, data, blocking=True), with
\* data[ATTR_ENTITY_ID] held apart from the attributes of data
service_call(service, target, data) ==
    [domain |-> "light", service |-> service, entity_id |-> target, data |-> data]

\* async_turn_on with "and" for "or" in its test
turn_on_target_and(data) ==
    IF ~is_on /\ DOMAIN data = {} THEN main_lights ELSE get_turned_on_entities

\* async_turn_on forwarding the attributes to every member
turn_on_target_entity_ids(data) ==
    IF ~is_on \/ DOMAIN data = {} THEN main_lights ELSE entity_ids

\* data[ATTR_ENTITY_ID] of async_turn_on
turn_on_target(data) ==
    IF ~is_on \/ DOMAIN data = {} THEN main_lights ELSE get_turned_on_entities

\* the calls async_turn_on(**kwargs) issues
turn_on_calls(kwargs) ==
    LET data == Restrict(kwargs, TurnOnKeys)
    IN  <<service_call(SERVICE_TURN_ON, turn_on_target(data), data)>>

\* async_turn_off aimed, like async_turn_on, at the lights that are on
turn_off_calls_turned_on(kwargs) ==
    <<service_call(SERVICE_TURN_OFF, get_turned_on_entities, Restrict(kwargs, TurnOffKeys))>>

\* the calls async_turn_off(**kwargs) issues
turn_off_calls(kwargs) ==
    <<service_call(SERVICE_TURN_OFF, entity_ids, Restrict(kwargs, TurnOffKeys))>>

\* async_toggle deciding on the state of the whole group
toggle_calls_is_on(kwargs) ==
    IF is_on THEN turn_off_calls(kwargs) ELSE turn_on_calls(kwargs)

\* async_toggle without its else: the turn_on follows the turn_off
toggle_calls_no_else(kwargs) ==
    IF main_lights_on
    THEN turn_off_calls(kwargs) \o turn_on_calls(kwargs)
    ELSE turn_on_calls(kwargs)

\* the calls async_toggle(**kwargs) issues
toggle_calls(kwargs) ==
    IF main_lights_on THEN turn_off_calls(kwargs) ELSE turn_on_calls(kwargs)

\* a request that sets is_on to what its call asks for, without an update
request_optimistic(method, kwargs, issued) ==
    /\ pc # "awaiting"
    /\ pc' = "awaiting"
    /\ op' = [method |-> method, kwargs |-> kwargs]
    /\ calls' = issued
    /\ is_on' = (issued[1].service = SERVICE_TURN_ON)
    /\ UNCHANGED <<main_lights_on, available, brightness, hs_color, color_temp,
                   min_mireds, max_mireds, white_value, effect_list, effect,
                   supported_features>>
    /\ UNCHANGED <<membership, subscription, hass_states, pending_updates>>

\* a request runs up to its await of the service call; one request is in flight
\* at a time
request(method, kwargs, issued) ==
    /\ pc # "awaiting"
    /\ pc' = "awaiting"
    /\ op' = [method |-> method, kwargs |-> kwargs]
    /\ calls' = issued
    /\ UNCHANGED <<membership, composite, subscription, hass_states, pending_updates>>

async_turn_on(kwargs) == request("turn_on", kwargs, turn_on_calls(kwargs))

async_turn_off(kwargs) == request("turn_off", kwargs, turn_off_calls(kwargs))

async_toggle(kwargs) == request("toggle", kwargs, toggle_calls(kwargs))

\* the awaited service call completes and the request returns
service_call_returns ==
    /\ pc = "awaiting"
    /\ pc' = "returned"
    /\ UNCHANGED <<membership, composite, subscription, hass_states, pending_updates, op, calls>>

\* the awaited service call raises and the request issues its call again
service_call_raises_retry ==
    /\ pc = "awaiting"
    /\ pc' = "raised"
    /\ calls' = calls \o calls
    /\ UNCHANGED <<membership, composite, subscription, hass_states, pending_updates, op>>

\* the awaited service call raises; the exception leaves the request uncaught
service_call_raises ==
    /\ pc = "awaiting"
    /\ pc' = "raised"
    /\ UNCHANGED <<membership, composite, subscription, hass_states, pending_updates, op, calls>>

\* ----------------------------------------------------------- specifications
Init == InitWith(Configs, PlainSnapshots)

Next ==
    \/ \E m \in Lights, s \in PlainSnapshots : state_set(m, s)
    \/ \E m \in Lights : state_removed(m)
    \/ scheduled_update
    \/ async_added_to_hass
    \/ async_will_remove_from_hass
    \/ \E kwargs \in Payloads : async_turn_on(kwargs)
    \/ \E kwargs \in Payloads : async_turn_off(kwargs)
    \/ \E kwargs \in Payloads : async_toggle(kwargs)
    \/ service_call_returns
    \/ service_call_raises

Spec == Init /\ [][Next]_vars

\* ------------------------------------------------------ dispatch properties
\* the members of the group
Members == Range(main_lights) \cup Range(aux_lights)

\* the members whose state is STATE_ON now
MembersOn == {m \in Members : m \in DOMAIN hass_states /\ hass_states[m].state = STATE_ON}

\* every member is off or has no state
AllMembersOffOrAbsent ==
    \A m \in Members : m \notin DOMAIN hass_states \/ hass_states[m].state = STATE_OFF

\* the step in which a request of the given method runs up to its service call
RequestStep(method) == pc # "awaiting" /\ pc' = "awaiting" /\ op'.method = method

\* C1: whatever the members' states, the cached state and the keyword
\* arguments, async_turn_off issues a turn_off call whose targets are exactly
\* the main and auxiliary lights; so does a turn_off that async_toggle issues.
C1_TurnOffTargetsAllMembers ==
    /\ op.method = "turn_off" =>
          /\ Len(calls) = 1
          /\ calls[1].service = SERVICE_TURN_OFF
    /\ \A i \in 1..Len(calls) :
          calls[i].service = SERVICE_TURN_OFF => Range(calls[i].entity_id) = Members

C1_Witness ==
    /\ op.method = "turn_off"
    /\ pc = "awaiting"
    /\ DOMAIN op.kwargs # {}
    /\ Range(aux_lights) \ Range(main_lights) # {}
    /\ Range(main_lights) # {}
    /\ MembersOn = {}
    /\ \E m \in Members : m \notin DOMAIN hass_states
    /\ \E m \in Range(aux_lights) : m \in DOMAIN hass_states /\ hass_states[m].state = STATE_OFF
    /\ Range(calls[1].entity_id) = Members

C4_ToggleFollowsMainLightsOn ==
    [][RequestStep("toggle") =>
          /\ Len(calls') = 1
          /\ calls'[1].service = (IF main_lights_on THEN SERVICE_TURN_OFF ELSE SERVICE_TURN_ON)
          /\ calls' = (IF main_lights_on
                       THEN turn_off_calls(op'.kwargs)
                       ELSE turn_on_calls(op'.kwargs))]_vars

C4_Witness ==
    /\ op.method = "toggle"
    /\ pc = "awaiting"
    /\ is_on
    /\ ~main_lights_on
    /\ main_lights # <<>>
    /\ Range(aux_lights) \cap MembersOn # {}
    /\ calls[1].service = SERVICE_TURN_ON

\* the cached is_on and main_lights_on are those an update would compute now
CacheFresh == is_on = update_is_on /\ main_lights_on = update_main_lights_on

\* C5 as claimed: when after an update every main light is off and an auxiliary
\* light is on, async_toggle with any keyword arguments issues one turn_on call
\* whose targets include every main light.
C5_Original ==
    [][(/\ RequestStep("toggle")
        /\ CacheFresh
        /\ Range(main_lights) \cap MembersOn = {}
        /\ Range(aux_lights) \cap MembersOn # {}) =>
          /\ Len(calls') = 1
          /\ calls'[1].service = SERVICE_TURN_ON
          /\ Range(main_lights) \subseteq Range(calls'[1].entity_id)]_vars

\* C6: every async_turn_on, async_turn_off and async_toggle issues exactly one
\* service call, whatever the members and the cached state; before the first
\* request none is issued.
C6_OneCallPerRequest ==
    /\ op.method = "none" => calls = <<>>
    /\ op.method # "none" => Len(calls) = 1

C6_Witness ==
    /\ op.method = "toggle"
    /\ pc = "returned"
    /\ main_lights_on
    /\ Len(calls) = 1
    /\ Len(calls[1].entity_id) = 2

\* the reduction alone: members' states with attributes, updates, lifecycle
InitReduce == InitWith(ReduceConfigs, ReduceSnapshots)

\* the members report states of the given set, or lose their state; updates
\* and the lifecycle run
NextAttributes(snapshots) ==
    \/ \E m \in Lights, s \in snapshots : state_set(m, s)
    \/ \E m \in Lights : state_removed(m)
    \/ scheduled_update
    \/ async_added_to_hass
    \/ async_will_remove_from_hass

NextReduce == NextAttributes(ReduceSnapshots)

SpecReduce == InitReduce /\ [][NextReduce]_vars

\* the means: members start with a brightness, color temperature or white
\* value; later they report a state without attributes or lose their state
InitMean == InitWith(ReduceConfigs, MeanSnapshots)

NextMean == NextAttributes(PlainSnapshots)

SpecMean == InitMean /\ [][NextMean]_vars

\* the effect: members start with an effect or none; later they report a state
\* without attributes or lose their state
InitEffect == InitWith(EffectConfigs, EffectSnapshots)

NextEffect == NextAttributes(PlainSnapshots)

SpecEffect == InitEffect /\ [][NextEffect]_vars

\* every attribute: members report states of either kind of light, or plain
\* states, or lose their state
InitWhole == InitWith(ReduceConfigs, WholeSnapshots)

NextWhole == NextAttributes(WholeSnapshots)

SpecWhole == InitWhole /\ [][NextWhole]_vars

\* ----------------------------------------------------- reduction properties
\* a step that runs async_update
UpdateStep == scheduled_update \/ async_added_to_hass

\* bit k of the mask n
Bit(n, k) == (n \div (2 ^ k)) % 2 = 1

\* the feature masks the present members report
ReportedMasks ==
    {hass_states[m].attributes.supported_features[1] :
        m \in {x \in DOMAIN hass_states : hass_states[x].attributes.supported_features # None}}

\* the highest bit of a feature mask the properties look at
MaxFeatureBit == 9

\* C7: supported_features is always a bitwise subset of SUPPORT_GROUP_LIGHT, at
\* construction and after every update; after an update it is the OR of the
\* present members' masks, ANDed with SUPPORT_GROUP_LIGHT, bit by bit.
C7_SupportedFeaturesWithinMask ==
    /\ [](\A k \in 0..MaxFeatureBit :
             Bit(supported_features, k) => Bit(SUPPORT_GROUP_LIGHT, k))
    /\ [](supported_features < 2 ^ (MaxFeatureBit + 1))
    /\ [][UpdateStep =>
             \A k \in 0..MaxFeatureBit :
                Bit(supported_features', k) <=>
                   /\ Bit(SUPPORT_GROUP_LIGHT, k)
                   /\ \E f \in ReportedMasks' : Bit(f, k)]_vars

C7_Witness ==
    /\ supported_features = SUPPORT_COLOR_TEMP + SUPPORT_COLOR
    /\ ReportedMasks = {SUPPORT_COLOR_TEMP + 64, SUPPORT_COLOR + 256}
    /\ pending_updates = 0

\* C8: after an update over states none of which is on, is_on and
\* main_lights_on are false; is_on is true exactly when a present member is on.
C8_NoMemberOnMeansOff ==
    [][UpdateStep =>
          /\ is_on' <=> (MembersOn' # {})
          /\ MembersOn' = {} => (~is_on' /\ ~main_lights_on')]_vars

C8_Witness ==
    /\ Len(unsub_calls) > 0
    /\ pending_updates = 0
    /\ async_unsub_state_changed # None
    /\ ~is_on
    /\ ~main_lights_on
    /\ \E m \in DOMAIN hass_states : hass_states[m].state = STATE_UNAVAILABLE
    /\ \E m \in DOMAIN hass_states : hass_states[m].state = STATE_OFF

\* C9 as claimed: after an update over exactly one present member, which
\* reports the brightness X, the brightness of the group is X.
C9_Original ==
    [][UpdateStep =>
          \A m \in DOMAIN hass_states' :
             (/\ DOMAIN hass_states' = {m}
              /\ hass_states'[m].attributes.brightness # None)
             => brightness' = hass_states'[m].attributes.brightness]_vars

\* C9 as amended: after an update over exactly one present member, which is on
\* and reports the brightness X, the brightness of the group is X.
C9_SingleOnMemberBrightness ==
    [][UpdateStep =>
          \A m \in DOMAIN hass_states' :
             (/\ DOMAIN hass_states' = {m}
              /\ hass_states'[m].state = STATE_ON
              /\ hass_states'[m].attributes.brightness # None)
             => brightness' = hass_states'[m].attributes.brightness]_vars

C9_Witness ==
    /\ DOMAIN hass_states = {"light.a"}
    /\ hass_states["light.a"].state = STATE_ON
    /\ hass_states["light.a"].attributes.brightness = Some(101)
    /\ entity_ids = <<"light.a", "light.b", "light.a">>
    /\ brightness = Some(101)
    /\ pending_updates = 0

\* C10: after an update, available is true exactly when a present member's
\* state is not "unavailable"; with no member present, or every present member
\* unavailable, the group is unavailable.
C10_AvailableIffSomeMemberAvailable ==
    [][UpdateStep =>
          (available' <=>
              \E m \in DOMAIN hass_states' : hass_states'[m].state # STATE_UNAVAILABLE)]_vars

C10_Witness ==
    /\ available
    /\ async_unsub_state_changed # None
    /\ pending_updates = 0
    /\ Cardinality(DOMAIN hass_states) = 2
    /\ \E m \in DOMAIN hass_states : hass_states[m].state = STATE_UNAVAILABLE
    /\ \E m \in DOMAIN hass_states : hass_states[m].state = STATE_OFF

\* ---------------------------------------------------------- mean properties
\* the cached value of an attribute of the group
Cached(key) ==
    CASE key = ATTR_BRIGHTNESS -> brightness
      [] key = ATTR_COLOR_TEMP -> color_temp
      [] key = ATTR_WHITE_VALUE -> white_value
      [] key = ATTR_HS_COLOR -> hs_color
      [] key = ATTR_EFFECT -> effect

\* the members that are on and report the attribute
ReportingOn(key) == {m \in MembersOn : hass_states[m].attributes[key] # None}

\* the value a present member reports
Reported(m, key) == hass_states[m].attributes[key][1]

RECURSIVE SumOver(_, _)
SumOver(ms, key) ==
    IF ms = {} THEN 0
    ELSE LET m == CHOOSE x \in ms : TRUE
         IN  Reported(m, key) + SumOver(ms \ {m}, key)

\* the mean, truncated, of what the members that are on report, each member once
MemberMean(key) == TruncDiv(SumOver(ReportingOn(key), key), Cardinality(ReportingOn(key)))

\* the attributes reduced by _mean_int
MeanKeys == {ATTR_BRIGHTNESS, ATTR_COLOR_TEMP, ATTR_WHITE_VALUE}

\* no light is listed twice in main_lights + aux_lights
NoLightListedTwice == Cardinality(Range(entity_ids)) = Len(entity_ids)

\* what C11 states of one update over the members' states
MeanOfOnMembers ==
    \A key \in MeanKeys :
       /\ Cardinality(ReportingOn(key)) >= 2 => Cached(key) = Some(MemberMean(key))
       /\ ReportingOn(key) = {} => Cached(key) = None

\* C11 as claimed: brightness, color_temp and white_value are, when two or more
\* members that are on report the attribute, the mean of the reported values
\* truncated to an integer; members that are not on do not count, and without
\* a reporting member that is on the value is None.
C11_Original == [][UpdateStep => MeanOfOnMembers']_vars

\* with no light listed twice, the update computes the truncated mean
MeanOfOnMembers_NoLightListedTwice ==
    [][(UpdateStep /\ NoLightListedTwice) => MeanOfOnMembers']_vars

\* -------------------------------------------------------- effect properties
\* the effects reported by members that are on
ReportedEffects == {Reported(m, ATTR_EFFECT) : m \in ReportingOn(ATTR_EFFECT)}

\* the members that are on and report the effect e
ReportingEffect(e) == {m \in ReportingOn(ATTR_EFFECT) : Reported(m, ATTR_EFFECT) = e}

\* the place of a member in the member order: main lights, then auxiliary lights
Place(m) == CHOOSE i \in 1..Len(entity_ids) :
               entity_ids[i] = m /\ \A j \in 1..Len(entity_ids) : entity_ids[j] = m => i <= j

\* the place at which the effect e is first met in the member order
FirstMet(e) == CHOOSE i \in {Place(m) : m \in ReportingEffect(e)} :
                  \A m \in ReportingEffect(e) : i <= Place(m)

\* the effect reported by most members that are on, the first met among equals
MemberEffect ==
    IF ReportedEffects = {} THEN None
    ELSE Some(CHOOSE e \in ReportedEffects :
                 \A f \in ReportedEffects \ {e} :
                    \/ Cardinality(ReportingEffect(e)) > Cardinality(ReportingEffect(f))
                    \/ /\ Cardinality(ReportingEffect(e)) = Cardinality(ReportingEffect(f))
                       /\ FirstMet(e) < FirstMet(f))

\* C12 as claimed: the effect of the group is the effect reported by the largest
\* number of members that are on, the one first met in member order among
\* equals; members that are not on are ignored; None when no member that is on
\* reports an effect.
C12_Original == [][UpdateStep => effect' = MemberEffect']_vars

\* with no light listed twice, the update computes that effect
MemberEffect_NoLightListedTwice ==
    [][(UpdateStep /\ NoLightListedTwice) => effect' = MemberEffect']_vars

\* ---------------------------------------------------- membership properties
\* the member order with the lights of main_lights taken out of aux_lights
ListedOnce == main_lights \o SelectSeq(aux_lights, LAMBDA m : m \notin Range(main_lights))

\* the states that are on, one for every light of ListedOnce
OnStatesOnce == SelectSeq(present_states(ListedOnce), LAMBDA s : s.state = STATE_ON)

\* the reduction of key over OnStatesOnce
ReducedOnce(key) ==
    CASE key \in MeanKeys -> reduce_attribute(OnStatesOnce, key, None, "_mean_int")
      [] key = ATTR_HS_COLOR -> reduce_attribute(OnStatesOnce, key, None, "_mean_tuple")
      [] key = ATTR_EFFECT ->
            LET all_effects == find_state_attributes(OnStatesOnce, ATTR_EFFECT)
            IN  IF all_effects = <<>> THEN None ELSE Some(most_common(all_effects))

\* the attributes reduced over the members that are on
ReducedKeys == MeanKeys \cup {ATTR_HS_COLOR, ATTR_EFFECT}

\* C13 as claimed: a light listed in main_lights and in aux_lights gives one
\* state to every reduction, so that after an update brightness, color_temp,
\* white_value, hs_color and effect are what they are for the same lists with
\* that light removed from aux_lights.
C13_Original == [][UpdateStep => \A key \in ReducedKeys : Cached(key)' = ReducedOnce(key)']_vars

\* with no light listed twice, the update reduces one state for every light
ReducedOnce_NoLightListedTwice ==
    [][(UpdateStep /\ NoLightListedTwice) =>
          \A key \in ReducedKeys : Cached(key)' = ReducedOnce(key)']_vars

\* ------------------------------------------------------- update properties
\* every field of the group as the members' states and the lists give it
Recomputed ==
    <<update_is_on, update_main_lights_on, update_available, update_brightness,
      update_hs_color, update_color_temp, update_min_mireds, update_max_mireds,
      update_white_value, update_effect_list, update_effect,
      update_supported_features>>

\* C14: an update replaces every field of the group: after it is_on,
\* main_lights_on, available, brightness, hs_color, color_temp, white_value,
\* min_mireds, max_mireds, effect_list, effect and supported_features are what
\* the members' states and the lists give, whatever the fields were before.
\* (an update leaves the members' states and the lists as they are, so the
\* fields are compared with what the states give when the update starts)
C14_UpdateReplacesEveryField ==
    [][UpdateStep => /\ UNCHANGED <<membership, hass_states>>
                     /\ composite' = Recomputed]_vars

\* an update has replaced the fields, and two lights of different kinds are on
C14_Witness ==
    /\ async_unsub_state_changed # None
    /\ pending_updates = 0
    /\ composite = Recomputed
    /\ main_lights = <<"light.a">> /\ aux_lights = <<"light.b">>
    /\ brightness = Some(150)
    /\ hs_color = Some(<<<<105, 4>>, <<125, 2>>>>)
    /\ color_temp = Some(326)
    /\ white_value = Some(8)
    /\ min_mireds = Some(153) /\ max_mireds = Some(555)
    /\ effect_list = Some({"colorloop", "strobe"})
    /\ effect = Some("colorloop")
    /\ supported_features = 55

\* the fields of the group as __init__ sets them
Defaults ==
    <<FALSE, FALSE, FALSE, None, None, None, Some(154), Some(500), None, None, None, 0>>

\* no light of the group has a state
NoMemberPresent == Members \cap DOMAIN hass_states = {}

\* C15: whatever the fields were, an update while no member has a state sets
\* every field to its value at construction (off, main lights off, unavailable,
\* no brightness, hs_color, color_temp, white_value, effect or effect_list,
\* min_mireds 154, max_mireds 500, supported_features 0), and an update that
\* starts from those values while some member has a state sets every field to
\* what the members' states give.
C15_UpdateWithoutStatesGivesDefaults ==
    [][UpdateStep =>
          /\ UNCHANGED <<membership, hass_states>>
          /\ NoMemberPresent => composite' = Defaults
          /\ (composite = Defaults /\ ~NoMemberPresent) => composite' = Recomputed]_vars

\* a second subscription has been made, so that two updates have run, no
\* member has a state, and the fields are the defaults
C15_Witness ==
    /\ Len(unsub_calls) = 2
    /\ async_unsub_state_changed # None
    /\ pending_updates = 0
    /\ NoMemberPresent
    /\ composite = Defaults

\* ---------------------------------------------------- interleaving properties
\* C16: whatever the order of state changes, updates and requests, the is_on
\* and main_lights_on one turn_on or toggle reads are the result of one update
\* (or both the values of construction): the two fields change only in an
\* update, which sets both from the same states, and a request reads both in
\* the state it starts in and changes neither.
C16_RequestReadsOneUpdate ==
    [][/\ (is_on' # is_on \/ main_lights_on' # main_lights_on) =>
             /\ UpdateStep
             /\ UNCHANGED <<membership, hass_states>>
             /\ is_on' = update_is_on
             /\ main_lights_on' = update_main_lights_on
       /\ (RequestStep("turn_on") \/ RequestStep("toggle")) =>
             /\ UNCHANGED <<is_on, main_lights_on>>
             /\ Len(calls') = 1
             /\ (calls'[1].service = SERVICE_TURN_OFF) =
                   (op'.method = "toggle" /\ main_lights_on)
             /\ calls'[1].service = SERVICE_TURN_ON =>
                   calls'[1].entity_id =
                      (IF ~is_on \/ DOMAIN calls'[1].data = {}
                       THEN main_lights ELSE get_turned_on_entities)]_vars

\* a toggle has read the fields of an earlier update while a state change
\* waits for its update: the group is cached as on with its main lights off,
\* and no member is on any more
C16_Witness ==
    /\ pc = "awaiting"
    /\ op.method = "toggle"
    /\ pending_updates > 0
    /\ is_on /\ ~main_lights_on
    /\ ~update_is_on
    /\ DOMAIN op.kwargs # {}
    /\ calls[1].service = SERVICE_TURN_ON
    /\ calls[1].entity_id = <<>>

\* --------------------------------------------------------- failure properties
\* the awaited service call of a request raises
RaiseStep == pc = "awaiting" /\ pc' = "raised"

\* the calls a request issues in the state it starts in
IssuedBy(method, kwargs) ==
    CASE method = "turn_on" -> turn_on_calls(kwargs)
      [] method = "turn_off" -> turn_off_calls(kwargs)
      [] method = "toggle" -> toggle_calls(kwargs)

\* C17: when the service call of a turn_on, turn_off or toggle raises, the
\* request ends with the exception, its one call is not issued again, and the
\* fields of the group, the lists, the subscription and the scheduled updates
\* are left as they were; a request or an update that follows does what it
\* does when no request has failed.
C17_FailureLeavesGroupUnchanged ==
    [][/\ RaiseStep =>
             /\ op'.method \in {"turn_on", "turn_off", "toggle"}
             /\ Len(calls) = 1
             /\ UNCHANGED <<calls, op>>
             /\ UNCHANGED <<membership, composite, subscription, hass_states, pending_updates>>
       /\ pc = "raised" =>
             /\ pc' \in {"raised", "awaiting"}
             /\ pc' = "awaiting" => calls' = IssuedBy(op'.method, op'.kwargs)
             /\ UpdateStep => composite' = Recomputed /\ UNCHANGED <<dispatch, hass_states>>]_vars

\* the service call of a toggle that turns the main lights on has raised
C17_Witness ==
    /\ pc = "raised"
    /\ op.method = "toggle"
    /\ Len(calls) = 1
    /\ calls[1].service = SERVICE_TURN_ON
    /\ calls[1].entity_id = main_lights
    /\ main_lights # <<>>
    /\ ~main_lights_on

\* ------------------------------------------------------- lifecycle properties
\* C18 as claimed: over any sequence of async_added_to_hass and
\* async_will_remove_from_hass, every subscription made is unsubscribed once
\* at most, a removal with no subscription held calls no unsubscribe, and with
\* no subscription held by the group no listener is active.
C18_Original ==
    /\ \A handle \in 1..Len(unsub_calls) : unsub_calls[handle] <= 1
    /\ \A handle \in 1..Len(unsub_calls) : (unsub_calls[handle] = 1) = (handle \notin listeners)
    /\ async_unsub_state_changed = None => listeners = {}

\* a removal ends the one subscription the group holds, and a removal with no
\* subscription held changes nothing
RemovalEndsHeldSubscription ==
    [][async_will_remove_from_hass =>
          /\ async_unsub_state_changed' = None
          /\ async_unsub_state_changed = None => UNCHANGED subscription
          /\ async_unsub_state_changed # None =>
                /\ listeners' = listeners \ {async_unsub_state_changed[1]}
                /\ unsub_calls'[async_unsub_state_changed[1]] = 1]_vars

\* --------------------------------------------------------- state invariants
\* C19: in every state the group can be in, at construction and after any
\* state changes, updates and requests, main_lights_on implies is_on and is_on
\* implies available.
C19_MainOnImpliesOnImpliesAvailable ==
    /\ main_lights_on => is_on
    /\ is_on => available

\* the fields say on, main lights on and available after a request has ended,
\* while every member has become unavailable and the update waits
C19_Witness ==
    /\ main_lights_on /\ is_on /\ available
    /\ pc = "returned"
    /\ pending_updates > 0
    /\ Members \subseteq DOMAIN hass_states
    /\ \A m \in Members : hass_states[m].state = STATE_UNAVAILABLE

\* ---------------------------------------------------------- frame properties
\* a request starts
AnyRequestStep == pc # "awaiting" /\ pc' = "awaiting"

\* C20: turn_on, turn_off and toggle leave the fields of the group and the
\* lists as they are, and only an update changes a field; so a toggle that
\* follows a toggle while main_lights_on is as it was issues the same service,
\* and the service and the target of a request are given by is_on and
\* main_lights_on as the last update left them, the attributes passed and the
\* members' states when the request starts.
C20_RequestsLeaveFieldsUnchanged ==
    [][/\ AnyRequestStep =>
             /\ UNCHANGED <<composite, membership>>
             /\ calls' = IssuedBy(op'.method, op'.kwargs)
       /\ composite' # composite => UpdateStep
       /\ UNCHANGED membership
       /\ (/\ RequestStep("toggle")
           /\ op.method = "toggle"
           /\ (calls[1].service = SERVICE_TURN_OFF) = main_lights_on) =>
             calls'[1].service = calls[1].service]_vars

\* a toggle turns the group off on the word of the last update, while the main
\* lights have gone off and the update that would say so waits
C20_Witness ==
    /\ pc = "awaiting"
    /\ op.method = "toggle"
    /\ calls[1].service = SERVICE_TURN_OFF
    /\ main_lights_on
    /\ pending_updates > 0
    /\ ~update_main_lights_on
    /\ update_is_on

====
